---- MODULE Spec2Model ----
(***************************************************************************)
(* Model of mtreconstruct (src/src/main.rs): main scans for fragments,     *)
(* spawns one reconstruct driver thread per logical file, every driver     *)
(* builds a merge tree of task threads that run cat in a retry loop, and   *)
(* finally renames the surviving leader to the base filename.              *)
(*                                                                         *)
(* A path is <<d, i>>: fragment i (i >= 1) of logical file d, <<d, 0>> is  *)
(* the base filename of d and <<>> is the empty string.  A byte is a       *)
(* token <<d, i, k>>: the k-th byte of fragment i of file d.               *)
(***************************************************************************)
EXTENDS Integers, Sequences, FiniteSets, TLC

VARIABLES args, NUM_CAT_ONCE, mainPc, fs, map, join_handler, driver, tasks, env

vars == <<args, NUM_CAT_ONCE, mainPc, fs, map, join_handler, driver, tasks, env>>

\* Bounds of the model.
MaxFrags == 4
MaxFragLen == 1
MaxEvents == 1
BufCap == 2
MultiFiles == 2
MultiFrags == 4
RetryFrags == 4
TreeFrags == 6

\* Program constants.
NUM_CAT_ONCE_DEFATLT == 32
MinNumber == 2
MaxNumber == 100

Empty == <<>>

\* The values of the -n option that are tried; <<>> is "option absent".
ArgChoices == {<<>>, <<1>>, <<2>>, <<3>>, <<100>>, <<101>>}

----------------------------------------------------------------------------
\* Sequences and the filesystem.

Last(s) == s[Len(s)]
Front(s) == SubSeq(s, 1, Len(s) - 1)
\* Mutant of Reverse: the vector is left in its order.
KeepOrder(s) == s

Reverse(s) == [i \in 1..Len(s) |-> s[Len(s) + 1 - i]]
Range(s) == {s[i] : i \in 1..Len(s)}

RECURSIVE Flatten(_)
Flatten(ss) == IF ss = <<>> THEN <<>> ELSE Head(ss) \o Flatten(Tail(ss))

Exists(p) == p \in DOMAIN fs

FragPath(d, i) == <<d, i>>
BasePath(d) == <<d, 0>>
FragContent(d, i, len) == [k \in 1..len |-> <<d, i, k>>]

\* The directory tree before the program starts: file d has n[d] fragments
\* of len bytes each.
InitialFs(n, len) ==
    [p \in UNION {{FragPath(d, i) : i \in 1..n[d]} : d \in DOMAIN n}
        |-> FragContent(p[1], p[2], len)]

\* fs::remove_file and a write through an open append handle.  A handle whose
\* path was unlinked meanwhile writes to an inode no path names any more.
\* Mutant of RemoveFile: the file is left in place.
KeepFile(f, p) == f

RemoveFile(f, p) == [q \in DOMAIN f \ {p} |-> f[q]]
AppendTo(f, p, data) == IF p \in DOMAIN f THEN [f EXCEPT ![p] = @ \o data] ELSE f
\* Mutant of RenameFile: the destination is created empty.
RenameEmpty(f, from, to) ==
    [q \in (DOMAIN f \ {from}) \cup {to} |-> IF q = to THEN <<>> ELSE f[q]]

RenameFile(f, from, to) ==
    [q \in (DOMAIN f \ {from}) \cup {to} |-> IF q = to THEN f[from] ELSE f[q]]

\* Lexical order of fragment paths of one file (zero-padded ordinals).
PathLess(p, q) == p[2] < q[2]

RECURSIVE InsertSorted(_, _)
InsertSorted(s, p) ==
    IF s = <<>> THEN <<p>>
    ELSE IF PathLess(p, Head(s)) THEN <<p>> \o s
    ELSE <<Head(s)>> \o InsertSorted(Tail(s), p)

RECURSIVE SortUnstable(_)
SortUnstable(s) ==
    IF s = <<>> THEN <<>> ELSE InsertSorted(SortUnstable(Tail(s)), Head(s))

Orderings(S) ==
    {s \in [1..Cardinality(S) -> S] : \A i, j \in 1..Cardinality(S) : s[i] = s[j] => i = j}

\* The process lives until main returns or panics.
Alive == mainPc \notin {"exit", "panic", "error"}

\* env counts what the environment did: I/O errors injected (faults), those of
\* them that no caller saw (silent), fragments removed by others (removals),
\* the entries cat skipped as missing without having appended them (skipped),
\* and it remembers the directory tree the program started from (initial).
\* At most MaxEvents errors and removals happen in one run.
CanFault == env.faults + env.removals < MaxEvents
Fault == [env EXCEPT !.faults = @ + 1]

----------------------------------------------------------------------------
\* main and parse_args.

\* Mutant of InRange: no upper limit.
AtLeastMin(number) == number >= MinNumber

InRange(number) == number >= MinNumber /\ number <= MaxNumber

ParseArgs ==
    /\ mainPc = "parse_args"
    /\ IF args = <<>>
       THEN /\ mainPc' = "scan"
            /\ UNCHANGED NUM_CAT_ONCE
       ELSE IF ~InRange(args[1])
       THEN /\ mainPc' = "error"
            /\ UNCHANGED NUM_CAT_ONCE
       ELSE /\ NUM_CAT_ONCE' = args[1]
            /\ mainPc' = "scan"
    /\ UNCHANGED <<args, fs, map, join_handler, driver, tasks, env>>

\* The directory walk yields the fragment paths in any order; they are grouped
\* by the text before ".FRAG-".
GroupPaths(paths) ==
    [d \in {p[1] : p \in Range(paths)} |-> SelectSeq(paths, LAMBDA p : p[1] = d)]

MainScan ==
    /\ mainPc = "scan"
    /\ \E paths \in Orderings(DOMAIN fs) : map' = GroupPaths(paths)
    /\ mainPc' = "spawn"
    /\ UNCHANGED <<args, NUM_CAT_ONCE, fs, join_handler, driver, tasks, env>>

NewDriver(d, val) ==
    [pc |-> "start", file |-> BasePath(d), fragments |-> val, num_cat_once |-> 0,
     leaf_tasks |-> <<>>, temp_tasks |-> <<>>, last_task |-> 0]

\* One iteration of "for (key, val) in &mut map": the HashMap yields its keys
\* in any order.
MainSpawn ==
    /\ mainPc = "spawn"
    /\ \E d \in DOMAIN map \ DOMAIN driver :
          LET val == SortUnstable(map[d]) IN
          /\ map' = [map EXCEPT ![d] = val]
          /\ driver' = driver @@ (d :> NewDriver(d, val))
          /\ join_handler' = Append(join_handler, d)
          /\ mainPc' = IF DOMAIN map = DOMAIN driver \cup {d} THEN "join" ELSE "spawn"
    /\ UNCHANGED <<args, NUM_CAT_ONCE, fs, tasks, env>>

MainJoin ==
    /\ mainPc = "join"
    /\ join_handler # <<>>
    /\ driver[Head(join_handler)].pc = "done"
    /\ join_handler' = Tail(join_handler)
    /\ UNCHANGED <<args, NUM_CAT_ONCE, mainPc, fs, map, driver, tasks, env>>

\* i.join().unwrap() on a driver thread that panicked.
MainJoinPanic ==
    /\ mainPc = "join"
    /\ join_handler # <<>>
    /\ driver[Head(join_handler)].pc = "panicked"
    /\ mainPc' = "panic"
    /\ UNCHANGED <<args, NUM_CAT_ONCE, fs, map, join_handler, driver, tasks, env>>

MainExit ==
    /\ mainPc = "join"
    /\ join_handler = <<>>
    /\ mainPc' = "exit"
    /\ UNCHANGED <<args, NUM_CAT_ONCE, fs, map, join_handler, driver, tasks, env>>

----------------------------------------------------------------------------
\* Task and the merge tree built by reconstruct.

\* Task::new(): no files, a handler whose thread body is empty.  njoin counts
\* the joins of the handler; appended records the entries whose content this
\* task has passed to write_all.
NewTask(d) ==
    [owner |-> d, kind |-> "new", files |-> <<>>, child_tasks |-> <<>>, pc |-> "empty",
     joined |-> 0, idx |-> 0, b |-> <<>>, buf |-> <<>>, err |-> "none", njoin |-> 0,
     appended |-> {}]

\* A leaf task after task.handler was set to the thread running the retry loop.
LeafTask(d, files) ==
    [NewTask(d) EXCEPT !.kind = "leaf", !.files = files, !.pc = "cat"]

\* A parent task: its thread first joins child_tasks, then runs the retry loop.
BranchTask(d, files, child_tasks) ==
    [NewTask(d) EXCEPT !.kind = "branch", !.files = files, !.child_tasks = child_tasks,
                       !.pc = "join"]

\* Mutant of FirstOrEmpty: the last entry is taken for the leader.
LastOrEmpty(files) == IF files = <<>> THEN Empty ELSE files[Len(files)]

FirstOrEmpty(files) == IF files = <<>> THEN Empty ELSE files[1]

\* Mutant of PopFragments: one more fragment than was handed out leaves the
\* vector.
PopOneMore(fragments, k) ==
    [files |-> [i \in 1..k |-> IF i <= Len(fragments)
                               THEN fragments[Len(fragments) + 1 - i] ELSE Empty],
     rest  |-> SubSeq(fragments, 1, Len(fragments) - k - 1)]

\* "for _ in 0..num_cat_once { fragments.pop().unwrap_or_default() }": the
\* i-th pop takes the i-th element from the end, or the empty string once the
\* vector is exhausted.
PopFragments(fragments, k) ==
    [files |-> [i \in 1..k |-> IF i <= Len(fragments)
                               THEN fragments[Len(fragments) + 1 - i] ELSE Empty],
     rest  |-> SubSeq(fragments, 1, Len(fragments) - k)]

\* Mutant of PopTasks: a parent takes one task of the level and pads the rest.
PopSingle(leaf_tasks, k, next) ==
    [child_tasks |-> [i \in 1..k |-> IF i = 1 THEN Last(leaf_tasks) ELSE next + (i - 1)],
     rest  |-> Front(leaf_tasks),
     fresh |-> k - 1]

\* Mutant of PopTasks: one parent takes the whole level, however long.
PopAll(leaf_tasks, k, next) ==
    [child_tasks |-> [i \in 1..(IF k > Len(leaf_tasks) THEN k ELSE Len(leaf_tasks)) |->
                         IF i <= Len(leaf_tasks)
                         THEN leaf_tasks[Len(leaf_tasks) + 1 - i]
                         ELSE next + (i - Len(leaf_tasks))],
     rest  |-> <<>>,
     fresh |-> IF k > Len(leaf_tasks) THEN k - Len(leaf_tasks) ELSE 0]

\* Mutant of PopTasks: the children are taken from the front of the vector.
PopFromFront(leaf_tasks, k, next) ==
    [child_tasks |-> [i \in 1..k |-> IF i <= Len(leaf_tasks)
                                     THEN leaf_tasks[i]
                                     ELSE next + (i - Len(leaf_tasks))],
     rest  |-> SubSeq(leaf_tasks, k + 1, Len(leaf_tasks)),
     fresh |-> IF k > Len(leaf_tasks) THEN k - Len(leaf_tasks) ELSE 0]

\* "for _ in 0..num_cat_once { leaf_tasks.pop().unwrap_or_else(Task::new) }":
\* the children in popping order, a fresh task taking the next id after `next`
\* each time the list is exhausted.
PopTasks(leaf_tasks, k, next) ==
    [child_tasks |-> [i \in 1..k |-> IF i <= Len(leaf_tasks)
                                     THEN leaf_tasks[Len(leaf_tasks) + 1 - i]
                                     ELSE next + (i - Len(leaf_tasks))],
     rest  |-> SubSeq(leaf_tasks, 1, Len(leaf_tasks) - k),
     fresh |-> IF k > Len(leaf_tasks) THEN k - Len(leaf_tasks) ELSE 0]

DriverStart(d) ==
    /\ Alive
    /\ driver[d].pc = "start"
    /\ driver' = [driver EXCEPT ![d].num_cat_once = NUM_CAT_ONCE,
                                ![d].fragments = Reverse(@),
                                ![d].pc = "leaf"]
    /\ UNCHANGED <<args, NUM_CAT_ONCE, mainPc, fs, map, join_handler, tasks, env>>

\* One iteration of the leaf loop.
DriverLeaf(d) ==
    /\ Alive
    /\ driver[d].pc = "leaf"
    /\ LET popped == PopFragments(driver[d].fragments, driver[d].num_cat_once) IN
       IF popped.files[1] = Empty
       THEN /\ driver' = [driver EXCEPT ![d].fragments = popped.rest, ![d].pc = "reduce"]
            /\ UNCHANGED tasks
       ELSE /\ tasks' = Append(tasks, LeafTask(d, popped.files))
            /\ driver' = [driver EXCEPT ![d].fragments = popped.rest,
                                        ![d].leaf_tasks = Append(@, Len(tasks) + 1)]
    /\ UNCHANGED <<args, NUM_CAT_ONCE, mainPc, fs, map, join_handler, env>>

\* Top of the reduction loop.
DriverReduce(d) ==
    /\ Alive
    /\ driver[d].pc = "reduce"
    /\ IF Len(driver[d].leaf_tasks) <= 1
       THEN driver' = [driver EXCEPT ![d].pc = "last"]
       ELSE driver' = [driver EXCEPT ![d].temp_tasks = <<>>,
                                     ![d].leaf_tasks = Reverse(@),
                                     ![d].pc = "fold"]
    /\ UNCHANGED <<args, NUM_CAT_ONCE, mainPc, fs, map, join_handler, tasks, env>>

\* One iteration of the inner loop: one parent task over up to num_cat_once
\* children, and at its end the append of temp_tasks when the level is folded.
DriverFold(d) ==
    /\ Alive
    /\ driver[d].pc = "fold"
    /\ LET popped == PopTasks(driver[d].leaf_tasks, driver[d].num_cat_once, Len(tasks))
           tasks1 == tasks \o [i \in 1..popped.fresh |-> NewTask(d)]
           files  == [i \in 1..Len(popped.child_tasks) |->
                         FirstOrEmpty(tasks1[popped.child_tasks[i]].files)]
           temp   == Append(driver[d].temp_tasks, Len(tasks1) + 1)
       IN
       /\ tasks' = Append(tasks1, BranchTask(d, files, popped.child_tasks))
       /\ IF popped.rest = <<>>
          THEN driver' = [driver EXCEPT ![d].leaf_tasks = temp,
                                        ![d].temp_tasks = <<>>,
                                        ![d].pc = "reduce"]
          ELSE driver' = [driver EXCEPT ![d].leaf_tasks = popped.rest,
                                        ![d].temp_tasks = temp]
    /\ UNCHANGED <<args, NUM_CAT_ONCE, mainPc, fs, map, join_handler, env>>

\* "let last_task = leaf_tasks.pop().unwrap(); assert_eq!(leaf_tasks.len(), 0)"
DriverLast(d) ==
    /\ Alive
    /\ driver[d].pc = "last"
    /\ IF Len(driver[d].leaf_tasks) # 1
       THEN driver' = [driver EXCEPT ![d].pc = "panicked"]
       ELSE driver' = [driver EXCEPT ![d].last_task = Last(driver[d].leaf_tasks),
                                     ![d].leaf_tasks = <<>>,
                                     ![d].pc = "join"]
    /\ UNCHANGED <<args, NUM_CAT_ONCE, mainPc, fs, map, join_handler, tasks, env>>

Finished(t) == tasks[t].pc = "done"

\* Mutant of LastTaskJoined: the driver does not wait for the last task.
NotJoined(d) == TRUE

\* "last_task.handler.join().unwrap()"
LastTaskJoined(d) == Finished(driver[d].last_task)

DriverJoin(d) ==
    /\ Alive
    /\ driver[d].pc = "join"
    /\ LastTaskJoined(d)
    /\ driver' = [driver EXCEPT ![d].pc = "rename"]
    /\ tasks' = [tasks EXCEPT ![driver[d].last_task].njoin = @ + 1]
    /\ UNCHANGED <<args, NUM_CAT_ONCE, mainPc, fs, map, join_handler, env>>

long_filename(d) == FirstOrEmpty(tasks[driver[d].last_task].files)

DriverRename(d) ==
    /\ Alive
    /\ driver[d].pc = "rename"
    /\ Exists(long_filename(d))
    /\ fs' = RenameFile(fs, long_filename(d), driver[d].file)
    /\ driver' = [driver EXCEPT ![d].pc = "done"]
    /\ UNCHANGED <<args, NUM_CAT_ONCE, mainPc, map, join_handler, tasks, env>>

\* std::fs::rename(..).unwrap() on an error: the source is gone, or the rename
\* itself fails (destination not replaceable, cross-device).
DriverRenameFail(d) ==
    /\ Alive
    /\ driver[d].pc = "rename"
    /\ ~Exists(long_filename(d)) \/ CanFault
    /\ env' = IF Exists(long_filename(d)) THEN [env EXCEPT !.faults = @ + 1] ELSE env
    /\ driver' = [driver EXCEPT ![d].pc = "panicked"]
    /\ UNCHANGED <<args, NUM_CAT_ONCE, mainPc, fs, map, join_handler, tasks>>

----------------------------------------------------------------------------
\* Task threads: the join of the children, the retry loop and cat.

Leader(t) == FirstOrEmpty(tasks[t].files)
Entry(t) == tasks[t].files[tasks[t].idx]
\* BufWriter::write_all on a buffer holding buf: what is left in the buffer,
\* what reaches the file now (out) and how much of out comes from the buffer.
BufWriteAll(buf, data) ==
    IF Len(data) < BufCap - Len(buf)
    THEN [buf |-> buf \o data, out |-> <<>>, flushed |-> 0]
    ELSE LET flush == Len(data) > BufCap - Len(buf)
             kept  == IF flush THEN <<>> ELSE buf
             sent  == IF flush THEN buf ELSE <<>>
         IN  IF Len(data) >= BufCap
             THEN [buf |-> kept, out |-> sent \o data, flushed |-> Len(sent)]
             ELSE [buf |-> kept \o data, out |-> sent, flushed |-> Len(sent)]

\* The body of the thread Task::new() spawns: "|| {}".
EmptyRun(t) ==
    /\ Alive
    /\ tasks[t].pc = "empty"
    /\ tasks' = [tasks EXCEPT ![t].pc = "done"]
    /\ UNCHANGED <<args, NUM_CAT_ONCE, mainPc, fs, map, join_handler, driver, env>>

\* Mutants of the join: no wait for the child, and a join of the first child only.
NoWait(t) == TRUE
JoinedFirst(t, j) == j >= 1

\* "for i in child_tasks { i.handler.join().unwrap(); }": the next child to join
\* has finished, and whether j joined children are all of them.
ChildFinished(t) == Finished(tasks[t].child_tasks[tasks[t].joined + 1])
JoinedAll(t, j) == j = Len(tasks[t].child_tasks)

\* Mutant of TaskJoinChild: the loop passes over the child without joining it.
PassChild(t) ==
    /\ Alive
    /\ tasks[t].pc = "join"
    /\ tasks' = [tasks EXCEPT ![t].joined = @ + 1,
                              ![t].pc = IF JoinedAll(t, tasks[t].joined + 1)
                                        THEN "cat" ELSE "join"]
    /\ UNCHANGED <<args, NUM_CAT_ONCE, mainPc, fs, map, join_handler, driver, env>>

TaskJoinChild(t) ==
    /\ Alive
    /\ tasks[t].pc = "join"
    /\ ChildFinished(t)
    /\ LET c == tasks[t].child_tasks[tasks[t].joined + 1] IN
       tasks' = [tasks EXCEPT ![t].joined = @ + 1,
                              ![t].pc = IF JoinedAll(t, tasks[t].joined + 1)
                                        THEN "cat" ELSE "join",
                              ![c].njoin = @ + 1]
    /\ UNCHANGED <<args, NUM_CAT_ONCE, mainPc, fs, map, join_handler, driver, env>>

\* cat up to and including the open of files[0] for append.
CatEnter(t) ==
    /\ Alive
    /\ tasks[t].pc = "cat"
    /\ IF Len(tasks[t].files) <= 1 \/ Leader(t) = Empty
       THEN tasks' = [tasks EXCEPT ![t].pc = "ret", ![t].err = "none"]
       ELSE IF Exists(Leader(t))
       THEN tasks' = [tasks EXCEPT ![t].pc = "loop", ![t].idx = 2, ![t].buf = <<>>]
       ELSE tasks' = [tasks EXCEPT ![t].pc = "ret", ![t].err = "leader"]
    /\ UNCHANGED <<args, NUM_CAT_ONCE, mainPc, fs, map, join_handler, driver, env>>

CatEnterFault(t) ==
    /\ Alive
    /\ tasks[t].pc = "cat"
    /\ Len(tasks[t].files) > 1
    /\ Exists(Leader(t))
    /\ CanFault
    /\ env' = Fault
    /\ tasks' = [tasks EXCEPT ![t].pc = "ret", ![t].err = "io"]
    /\ UNCHANGED <<args, NUM_CAT_ONCE, mainPc, fs, map, join_handler, driver>>

\* Mutant of AfterSkip: a missing file ends the loop instead of continuing it.
BreakOnSkip(t) == Len(tasks[t].files) + 1

\* "continue": the index of the entry the loop goes on with after a skip.
AfterSkip(t) == tasks[t].idx + 1

\* Top of "for file in files.iter().skip(1)" down to the metadata check.
CatLoop(t) ==
    /\ Alive
    /\ tasks[t].pc = "loop"
    /\ IF tasks[t].idx > Len(tasks[t].files)
       THEN /\ tasks' = [tasks EXCEPT ![t].pc = "ret", ![t].err = "none"]
            /\ UNCHANGED env
       ELSE IF Entry(t) = Empty
       THEN /\ tasks' = [tasks EXCEPT ![t].idx = AfterSkip(t)]
            /\ UNCHANGED env
       ELSE IF ~Exists(Entry(t))
       THEN /\ tasks' = [tasks EXCEPT ![t].idx = AfterSkip(t)]
            /\ env' = [env EXCEPT !.skipped = @ \cup ({Entry(t)} \ tasks[t].appended)]
       ELSE /\ tasks' = [tasks EXCEPT ![t].pc = "read"]
            /\ UNCHANGED env
    /\ UNCHANGED <<args, NUM_CAT_ONCE, mainPc, fs, map, join_handler, driver>>

\* File::open and read_to_end.
CatRead(t) ==
    /\ Alive
    /\ tasks[t].pc = "read"
    /\ IF Exists(Entry(t))
       THEN tasks' = [tasks EXCEPT ![t].b = fs[Entry(t)], ![t].pc = "write"]
       ELSE tasks' = [tasks EXCEPT ![t].pc = "ret", ![t].err = "io"]
    /\ UNCHANGED <<args, NUM_CAT_ONCE, mainPc, fs, map, join_handler, driver, env>>

CatReadFault(t) ==
    /\ Alive
    /\ tasks[t].pc = "read"
    /\ Exists(Entry(t))
    /\ CanFault
    /\ env' = Fault
    /\ tasks' = [tasks EXCEPT ![t].pc = "ret", ![t].err = "io"]
    /\ UNCHANGED <<args, NUM_CAT_ONCE, mainPc, fs, map, join_handler, driver>>

\* buf1.write_all(&b)
CatWrite(t) ==
    /\ Alive
    /\ tasks[t].pc = "write"
    /\ LET w == BufWriteAll(tasks[t].buf, tasks[t].b) IN
       /\ fs' = AppendTo(fs, Leader(t), w.out)
       /\ tasks' = [tasks EXCEPT ![t].buf = w.buf, ![t].b = <<>>, ![t].pc = "remove",
                                 ![t].appended = @ \cup {Entry(t)}]
    /\ UNCHANGED <<args, NUM_CAT_ONCE, mainPc, map, join_handler, driver, env>>

\* The write fails after k of the bytes it sends to the file: the part of the
\* buffer that was written is dropped from it, the rest stays buffered.
CatWriteFault(t) ==
    /\ Alive
    /\ tasks[t].pc = "write"
    /\ CanFault
    /\ LET w == BufWriteAll(tasks[t].buf, tasks[t].b) IN
       /\ w.out # <<>>
       /\ \E k \in 0..(Len(w.out) - 1) :
             /\ fs' = AppendTo(fs, Leader(t), SubSeq(w.out, 1, k))
             /\ tasks' = [tasks EXCEPT
                            ![t].buf = IF k < w.flushed
                                       THEN SubSeq(tasks[t].buf, k + 1, Len(tasks[t].buf))
                                       ELSE <<>>,
                            ![t].b = <<>>, ![t].pc = "ret", ![t].err = "io"]
    /\ env' = Fault
    /\ UNCHANGED <<args, NUM_CAT_ONCE, mainPc, map, join_handler, driver>>

\* std::fs::remove_file(&file)
CatRemove(t) ==
    /\ Alive
    /\ tasks[t].pc = "remove"
    /\ IF Exists(Entry(t))
       THEN /\ fs' = RemoveFile(fs, Entry(t))
            /\ tasks' = [tasks EXCEPT ![t].idx = @ + 1, ![t].pc = "loop"]
       ELSE /\ tasks' = [tasks EXCEPT ![t].pc = "ret", ![t].err = "io"]
            /\ UNCHANGED fs
    /\ UNCHANGED <<args, NUM_CAT_ONCE, mainPc, map, join_handler, driver, env>>

CatRemoveFault(t) ==
    /\ Alive
    /\ tasks[t].pc = "remove"
    /\ Exists(Entry(t))
    /\ CanFault
    /\ env' = Fault
    /\ tasks' = [tasks EXCEPT ![t].pc = "ret", ![t].err = "io"]
    /\ UNCHANGED <<args, NUM_CAT_ONCE, mainPc, fs, map, join_handler, driver>>

\* cat returns: buf1 is dropped, which flushes it, and the retry loop either
\* breaks (the thread ends) or goes to sleep.
CatReturn(t) ==
    /\ Alive
    /\ tasks[t].pc = "ret"
    /\ fs' = AppendTo(fs, Leader(t), tasks[t].buf)
    /\ tasks' = [tasks EXCEPT ![t].buf = <<>>,
                              ![t].pc = IF tasks[t].err = "none" THEN "done" ELSE "sleep"]
    /\ UNCHANGED <<args, NUM_CAT_ONCE, mainPc, map, join_handler, driver, env>>

\* The flush in the drop fails after k bytes; the drop ignores the error.
CatReturnFault(t) ==
    /\ Alive
    /\ tasks[t].pc = "ret"
    /\ tasks[t].buf # <<>>
    /\ CanFault
    /\ \E k \in 0..(Len(tasks[t].buf) - 1) :
          fs' = AppendTo(fs, Leader(t), SubSeq(tasks[t].buf, 1, k))
    /\ env' = [Fault EXCEPT !.silent = @ + 1]
    /\ tasks' = [tasks EXCEPT ![t].buf = <<>>,
                              ![t].pc = IF tasks[t].err = "none" THEN "done" ELSE "sleep"]
    /\ UNCHANGED <<args, NUM_CAT_ONCE, mainPc, map, join_handler, driver>>

\* Mutant of Retry: after the sleep the loop breaks instead of calling cat again.
GiveUp(t) ==
    /\ Alive
    /\ tasks[t].pc = "sleep"
    /\ tasks' = [tasks EXCEPT ![t].pc = "done"]
    /\ UNCHANGED <<args, NUM_CAT_ONCE, mainPc, fs, map, join_handler, driver, env>>

\* The sleep is over: the next iteration of the retry loop.
Retry(t) ==
    /\ Alive
    /\ tasks[t].pc = "sleep"
    /\ tasks' = [tasks EXCEPT ![t].pc = "cat", ![t].err = "none"]
    /\ UNCHANGED <<args, NUM_CAT_ONCE, mainPc, fs, map, join_handler, driver, env>>

\* Something outside the program removes a fragment after the scan found it.
EnvRemove(p) ==
    /\ Alive
    /\ mainPc \notin {"parse_args", "scan"}
    /\ CanFault
    /\ p[2] >= 1
    /\ fs' = RemoveFile(fs, p)
    /\ env' = [env EXCEPT !.removals = @ + 1]
    /\ UNCHANGED <<args, NUM_CAT_ONCE, mainPc, map, join_handler, driver, tasks>>

----------------------------------------------------------------------------
\* Specifications.

InitWith(argChoices, counts, lens) ==
    /\ args \in argChoices
    /\ NUM_CAT_ONCE = NUM_CAT_ONCE_DEFATLT
    /\ mainPc = "parse_args"
    /\ \E n \in counts, len \in lens : fs = InitialFs(n, len)
    /\ env = [faults |-> 0, silent |-> 0, removals |-> 0, skipped |-> {}, initial |-> fs]
    /\ map = <<>>
    /\ join_handler = <<>>
    /\ driver = <<>>
    /\ tasks = <<>>

\* One logical file of 1..MaxFrags fragments.
Init == InitWith(ArgChoices, [{1} -> 1..MaxFrags], 1..MaxFragLen)

Next ==
    \/ ParseArgs \/ MainScan \/ MainSpawn \/ MainJoin \/ MainJoinPanic \/ MainExit
    \/ \E d \in DOMAIN driver : DriverStart(d)
    \/ \E d \in DOMAIN driver : DriverLeaf(d)
    \/ \E d \in DOMAIN driver : DriverReduce(d)
    \/ \E d \in DOMAIN driver : DriverFold(d)
    \/ \E d \in DOMAIN driver : DriverLast(d)
    \/ \E d \in DOMAIN driver : DriverJoin(d)
    \/ \E d \in DOMAIN driver : DriverRename(d)
    \/ \E d \in DOMAIN driver : DriverRenameFail(d)
    \/ \E t \in 1..Len(tasks) : EmptyRun(t)
    \/ \E t \in 1..Len(tasks) : TaskJoinChild(t)
    \/ \E t \in 1..Len(tasks) : CatEnter(t)
    \/ \E t \in 1..Len(tasks) : CatLoop(t)
    \/ \E t \in 1..Len(tasks) : CatRead(t)
    \/ \E t \in 1..Len(tasks) : CatWrite(t)
    \/ \E t \in 1..Len(tasks) : CatRemove(t)
    \/ \E t \in 1..Len(tasks) : CatReturn(t)
    \/ \E t \in 1..Len(tasks) : Retry(t)
    \/ \E t \in 1..Len(tasks) : CatEnterFault(t)
    \/ \E t \in 1..Len(tasks) : CatReadFault(t)
    \/ \E t \in 1..Len(tasks) : CatWriteFault(t)
    \/ \E t \in 1..Len(tasks) : CatRemoveFault(t)
    \/ \E t \in 1..Len(tasks) : CatReturnFault(t)
    \/ \E p \in DOMAIN fs : EnvRemove(p)

Spec == Init /\ [][Next]_vars

\* Several logical files side by side, batch sizes 2 and 3, no I/O error but a
\* failing rename, nothing removed from outside.
MultiCounts == {n \in [1..MultiFiles -> 1..MultiFrags] : \A d \in 1..(MultiFiles - 1) : n[d] = 1}

InitMulti == InitWith({<<2>>, <<3>>}, MultiCounts, {1})

NextMulti ==
    \/ ParseArgs \/ MainScan \/ MainSpawn \/ MainJoin \/ MainJoinPanic \/ MainExit
    \/ \E d \in DOMAIN driver : DriverStart(d)
    \/ \E d \in DOMAIN driver : DriverLeaf(d)
    \/ \E d \in DOMAIN driver : DriverReduce(d)
    \/ \E d \in DOMAIN driver : DriverFold(d)
    \/ \E d \in DOMAIN driver : DriverLast(d)
    \/ \E d \in DOMAIN driver : DriverJoin(d)
    \/ \E d \in DOMAIN driver : DriverRename(d)
    \/ \E d \in DOMAIN driver : DriverRenameFail(d)
    \/ \E t \in 1..Len(tasks) : EmptyRun(t)
    \/ \E t \in 1..Len(tasks) : TaskJoinChild(t)
    \/ \E t \in 1..Len(tasks) : CatEnter(t)
    \/ \E t \in 1..Len(tasks) : CatLoop(t)
    \/ \E t \in 1..Len(tasks) : CatRead(t)
    \/ \E t \in 1..Len(tasks) : CatWrite(t)
    \/ \E t \in 1..Len(tasks) : CatRemove(t)
    \/ \E t \in 1..Len(tasks) : CatReturn(t)

SpecMulti == InitMulti /\ [][NextMulti]_vars

\* The same program with its threads scheduled fairly: a thread that is
\* returning from cat does return, and a sleeping thread wakes up when its
\* sleep of 5 or 6 seconds is over.
\* With batch size 3 a tree over 4 to 9 fragments has four tasks and a tree
\* over fewer fragments has one: never more tasks than RetryFrags.
TaskSlots == 1..RetryFrags

\* One logical file of 1..RetryFrags fragments of one or two bytes each, batch size 3.
InitRetry == InitWith({<<3>>}, [{1} -> 1..RetryFrags], {1, 2})

Fairness ==
    \A t \in TaskSlots :
        /\ WF_vars(t <= Len(tasks) /\ (CatReturn(t) \/ CatReturnFault(t)))
        /\ WF_vars(t <= Len(tasks) /\ Retry(t))

FairSpec == InitRetry /\ [][Next]_vars /\ Fairness

\* The construction of the merge tree alone: main up to the spawn of the
\* driver and the driver up to the join of the last task, before any of the
\* task threads it spawned has been scheduled.  One logical file of
\* 1..TreeFrags fragments.
InitTree == InitWith(ArgChoices, [{1} -> 1..TreeFrags], {1})

NextTree ==
    \/ ParseArgs \/ MainScan \/ MainSpawn
    \/ \E d \in DOMAIN driver : DriverStart(d)
    \/ \E d \in DOMAIN driver : DriverLeaf(d)
    \/ \E d \in DOMAIN driver : DriverReduce(d)
    \/ \E d \in DOMAIN driver : DriverFold(d)
    \/ \E d \in DOMAIN driver : DriverLast(d)

SpecTree == InitTree /\ [][NextTree]_vars

\* The driver thread is scheduled again and again while it can take a step.
DriverBuild(d) ==
    DriverStart(d) \/ DriverLeaf(d) \/ DriverReduce(d) \/ DriverFold(d) \/ DriverLast(d)

FairTree == SpecTree /\ WF_vars(\E d \in DOMAIN driver : DriverBuild(d))

----------------------------------------------------------------------------
\* Vocabulary of the properties.

TaskIds == 1..Len(tasks)
Files == DOMAIN driver
Fragments(d) == {p \in DOMAIN env.initial : p[1] = d}
NumFragments(d) == Cardinality(Fragments(d))

\* The bytes of the fragments in `keep`, concatenated in ascending path order
\* by one sequential pass with no tree.
Reference(d, keep) ==
    Flatten([i \in 1..NumFragments(d) |->
                IF FragPath(d, i) \in keep THEN env.initial[FragPath(d, i)] ELSE <<>>])

Reconstructed(d) == driver[d].pc = "done"
NoFailure == env.faults = 0 /\ env.removals = 0

\* A task whose retry loop has been entered and has not yet ended.
InProgress(t) == tasks[t].pc \in {"cat", "loop", "read", "write", "remove", "ret", "sleep"}
Touched(t) == Range(tasks[t].files) \ {Empty}
TasksOf(d) == {t \in TaskIds : tasks[t].owner = d}

\* C1: once reconstruct has finished and no I/O error or outside removal
\* happened, the base path holds the fragments' bytes in ascending order, as a
\* sequential concatenation would give, for every batch size and interleaving.
C1_Ordering ==
    \A d \in Files :
        (Reconstructed(d) /\ NoFailure) =>
            (Exists(BasePath(d)) /\ fs[BasePath(d)] = Reference(d, Fragments(d)))

C1_Witness ==
    \E d \in Files :
        /\ Reconstructed(d) /\ NoFailure
        /\ driver[d].num_cat_once = 2 /\ NumFragments(d) >= 4
        /\ fs[BasePath(d)] = Reference(d, Fragments(d))

\* C2: after finitely many failures reported by cat, at whatever step, the
\* retry loop ends and the output is still exactly the sorted concatenation.
C2_RetryRecovery ==
    \A d \in Files :
        (Reconstructed(d) /\ env.removals = 0 /\ env.silent = 0) =>
            (Exists(BasePath(d)) /\ fs[BasePath(d)] = Reference(d, Fragments(d)))

\* C3: after reconstruct returned, no fragment path of the group exists and
\* the base path does.
C3_FragmentConsumption ==
    \A d \in Files :
        Reconstructed(d) => {p \in DOMAIN fs : p[1] = d} = {BasePath(d)}

C3_Witness ==
    \E d \in Files :
        /\ Reconstructed(d) /\ NumFragments(d) >= 3 /\ driver[d].num_cat_once = 2
        /\ \A p \in Fragments(d) : ~Exists(p)
        /\ Exists(BasePath(d))

\* C4: a parent task that has left the join of its children, i.e. has entered
\* its retry loop, has every one of its children finished.
C4_JoinBeforeRun ==
    \A t \in TaskIds :
        (tasks[t].kind = "branch" /\ tasks[t].pc # "join") =>
            \A c \in Range(tasks[t].child_tasks) : Finished(c)

C4_Witness ==
    \E t \in TaskIds :
        /\ tasks[t].kind = "branch" /\ tasks[t].pc = "write"
        /\ \A c \in Range(tasks[t].child_tasks) : Finished(c)
        /\ \E c \in Range(tasks[t].child_tasks) : tasks[c].kind = "leaf"
        /\ \E c \in Range(tasks[t].child_tasks) : tasks[c].kind = "new"

\* C5: two different tasks whose concatenations are both in progress have no
\* path in common.
C5_MutualExclusion ==
    \A t, u \in TaskIds :
        (t # u /\ InProgress(t) /\ InProgress(u)) => Touched(t) \cap Touched(u) = {}

C5_Witness ==
    \E t, u \in TaskIds :
        /\ t # u /\ tasks[t].owner = tasks[u].owner
        /\ InProgress(t) /\ tasks[t].pc = "write"
        /\ InProgress(u) /\ tasks[u].pc = "remove"

\* data is the last thing written to whole.
EndsWith(whole, data) ==
    /\ Len(data) <= Len(whole)
    /\ SubSeq(whole, Len(whole) - Len(data) + 1, Len(whole)) = data

\* C6: whenever cat deletes a secondary file, the whole content of that file is
\* already in the primary file.
C6_DeleteAfterAppend ==
    [][\A t \in TaskIds :
          (/\ env.removals = 0
           /\ tasks[t].pc = "remove"
           /\ tasks'[t].pc = "loop")
          => EndsWith(fs[Leader(t)], fs[Entry(t)])]_vars

\* C7: the rename is issued, and the base path exists, only when every task of
\* the tree has finished.
C7_RenameAfterTree ==
    \A d \in Files :
        (driver[d].pc \in {"rename", "done"} \/ Exists(BasePath(d))) =>
            \A t \in TasksOf(d) : Finished(t)

C7_Witness ==
    \E d \in Files :
        /\ Reconstructed(d) /\ Exists(BasePath(d))
        /\ Cardinality(TasksOf(d)) >= 4
        /\ \A t \in TasksOf(d) : Finished(t)

\* C8: when the process has ended, every logical file whose rename did not
\* fail has been reconstructed, with its correct content.
C8_OthersUnaffected ==
    mainPc \in {"exit", "panic"} =>
        \A d \in Files :
            driver[d].pc # "panicked" =>
                /\ Reconstructed(d)
                /\ Exists(BasePath(d))
                /\ fs[BasePath(d)] = Reference(d, Fragments(d))

\* C9: a cat that failed because its leader does not exist is not retried.
C9_MissingLeaderFatal ==
    \A t \in TaskIds : tasks[t].err = "leader" => tasks[t].pc # "sleep"

\* The fragments whose bytes are in path p once every task led by p has
\* finished: p itself and whatever was merged into the secondary entries of
\* those tasks.
RECURSIVE Merged(_)
Merged(p) ==
    {p} \cup UNION {Merged(q) : q \in UNION {Touched(t) \ {p} : t \in {u \in TaskIds : Leader(u) = p}}}

Lost == UNION {Merged(p) : p \in env.skipped}

\* An entry that is missing when the loop reaches it.
AtMissingEntry(t) ==
    /\ tasks[t].pc = "loop"
    /\ tasks[t].idx <= Len(tasks[t].files)
    /\ Entry(t) # Empty
    /\ ~Exists(Entry(t))

\* C10 as stated: with no I/O error, a reconstruction in which cat skipped a
\* missing entry ends with exactly the fragments that were there when cat came
\* to them, in sorted order.
C10_SilentSkip ==
    \A d \in Files :
        (Reconstructed(d) /\ env.faults = 0 /\ env.skipped # {}) =>
            fs[BasePath(d)] = Reference(d, Fragments(d) \ env.skipped)

\* C10 as amended: the skip raises no error and leaves the filesystem alone,
\* and the output is the sorted concatenation of the fragments that were not
\* lost, a skipped entry losing its own fragment and every fragment already
\* merged into it.
C10_SilentSkipAmended ==
    /\ [](\A d \in Files :
            (Reconstructed(d) /\ env.faults = 0 /\ env.skipped # {}) =>
                fs[BasePath(d)] = Reference(d, Fragments(d) \ Lost))
    /\ [][\A t \in TaskIds :
            (AtMissingEntry(t) /\ tasks'[t] # tasks[t]) =>
                /\ fs' = fs
                /\ tasks'[t].pc = "loop"
                /\ tasks'[t].err = "none"
                /\ tasks'[t].idx > tasks[t].idx]_vars

C10_Witness ==
    \E d \in Files :
        /\ Reconstructed(d) /\ env.faults = 0
        /\ \E p \in env.skipped : Merged(p) # {p}
        /\ fs[BasePath(d)] = Reference(d, Fragments(d) \ Lost)
        /\ fs[BasePath(d)] # Reference(d, Fragments(d) \ env.skipped)

\* The tasks that join t, and those that wait for t through a chain of joins.
Parents(t) == {p \in TaskIds : t \in Range(tasks[p].child_tasks)}

RECURSIVE Ancestors(_)
Ancestors(t) == Parents(t) \cup UNION {Ancestors(p) : p \in Parents(t)}

\* C11: the retry loop never gives up.  A task with a retry loop ends only on
\* the return of a successful cat; a failed cat is always followed by another
\* call of cat; and as long as a task has not ended, none of its ancestors has
\* left its joins and the driver has not reached the rename.
C11_NeverGivesUp ==
    /\ [][\A t \in TaskIds :
            (tasks[t].kind # "new" /\ tasks[t].pc # "done" /\ tasks'[t].pc = "done")
                => (tasks[t].pc = "ret" /\ tasks[t].err = "none")]_vars
    /\ [](\A t \in TaskIds :
            ~Finished(t) =>
                /\ \A p \in Ancestors(t) : tasks[p].pc = "join"
                /\ driver[tasks[t].owner].pc \notin {"rename", "done"})
    /\ \A t \in TaskSlots :
            (t \in TaskIds /\ tasks[t].pc = "ret" /\ tasks[t].err # "none")
                ~> (t \in TaskIds /\ tasks[t].pc = "cat")

C11_Witness ==
    \E t \in TaskIds :
        /\ tasks[t].pc = "sleep"
        /\ \E p \in Ancestors(t) : tasks[p].pc = "join"
        /\ driver[tasks[t].owner].pc = "join"

\* The least q with q * b >= n.
CeilDiv(n, b) == (n + b - 1) \div b

\* The leaf tasks of d in the order of their creation.
LeafIds(d) == {t \in TasksOf(d) : tasks[t].kind = "leaf"}
NthOf(S, j) == CHOOSE t \in S : Cardinality({u \in S : u < t}) = j

\* The leaf loop of d has ended.
LeavesBuilt(d) == driver[d].pc \notin {"start", "leaf"}

\* C12: once the leaf loop has ended there are exactly ceil(n / B) leaf tasks,
\* and the file list of the j-th of them (j from 0) is the run of fragments
\* j*B+1 .. min((j+1)*B, n) of the sorted list, in order, filled up to B
\* entries with empty strings; so it starts with a real path, its leader.
C12_LeafPartition ==
    \A d \in Files :
        LeavesBuilt(d) =>
            LET n == NumFragments(d)
                B == driver[d].num_cat_once
            IN  /\ Cardinality(LeafIds(d)) = CeilDiv(n, B)
                /\ \A j \in 0..(CeilDiv(n, B) - 1) :
                      tasks[NthOf(LeafIds(d), j)].files =
                          [i \in 1..B |-> IF j * B + i <= n
                                          THEN FragPath(d, j * B + i) ELSE Empty]

C12_Witness ==
    \E d \in Files :
        /\ LeavesBuilt(d) /\ NumFragments(d) = 3 /\ driver[d].num_cat_once = 2
        /\ Cardinality(LeafIds(d)) = 2
        /\ \E t \in TasksOf(d) :
              /\ tasks[t].kind = "branch"
              /\ tasks[t].files = <<FragPath(d, 1), FragPath(d, 3)>>

BadNumber == args # <<>> /\ args[1] \notin MinNumber..MaxNumber

\* C14: with a -n value outside 2..100 main ends with the input error before
\* anything else: after parse_args no driver and no task exists, the files
\* are as they were and the stored batch size is still 32.  With a value
\* inside the range, each driver that has read the batch size holds that value.
C14_BatchArgument ==
    /\ (BadNumber /\ mainPc # "parse_args") =>
            /\ mainPc = "error"
            /\ driver = <<>> /\ tasks = <<>> /\ map = <<>>
            /\ fs = env.initial
            /\ NUM_CAT_ONCE = NUM_CAT_ONCE_DEFATLT
    /\ mainPc = "error" => BadNumber
    /\ (args # <<>> /\ ~BadNumber) =>
            \A d \in Files : driver[d].pc # "start" => driver[d].num_cat_once = args[1]

C14_Witness ==
    /\ BadNumber /\ args[1] = MaxNumber + 1
    /\ mainPc = "error" /\ driver = <<>> /\ fs = env.initial

\* The level of a task: 1 for a leaf task, one more than the level of its
\* first child for a parent task, 0 for a padding task.
RECURSIVE Depth(_)
Depth(t) ==
    IF tasks[t].kind = "leaf" THEN 1
    ELSE IF tasks[t].kind = "branch" THEN 1 + Depth(tasks[t].child_tasks[1])
    ELSE 0

\* The tasks of level h of d; they are created in the order of their level.
LevelIds(d, h) == {t \in TasksOf(d) : tasks[t].kind # "new" /\ Depth(t) = h}
PositionIn(S, t) == Cardinality({u \in S : u < t})

\* C15: the j-th parent task of a level (j from 0) has B children; the i-th of
\* them is the task at position j*B+i-1 of the level below, in that level's
\* order, or a padding task once that level is exhausted; its file list is the
\* list of its children's leaders in that order; and a finished level, as the
\* driver holds it, is in creation order with ascending leaders.
C15_OrderPreservingFold ==
    \A d \in Files :
        /\ \A t \in TasksOf(d) :
              tasks[t].kind = "branch" =>
                  LET B    == driver[d].num_cat_once
                      prev == LevelIds(d, Depth(t) - 1)
                      j    == PositionIn(LevelIds(d, Depth(t)), t)
                  IN  /\ Len(tasks[t].child_tasks) = B
                      /\ \A i \in 1..B :
                            IF j * B + i <= Cardinality(prev)
                            THEN tasks[t].child_tasks[i] = NthOf(prev, j * B + i - 1)
                            ELSE tasks[tasks[t].child_tasks[i]].kind = "new"
                      /\ tasks[t].files =
                            [i \in 1..B |-> FirstOrEmpty(tasks[tasks[t].child_tasks[i]].files)]
        /\ driver[d].pc \in {"reduce", "last"} =>
              \A i \in 1..(Len(driver[d].leaf_tasks) - 1) :
                  /\ driver[d].leaf_tasks[i] < driver[d].leaf_tasks[i + 1]
                  /\ PathLess(tasks[driver[d].leaf_tasks[i]].files[1],
                              tasks[driver[d].leaf_tasks[i + 1]].files[1])

C15_Witness ==
    \E d \in Files :
        /\ driver[d].pc = "join" /\ driver[d].num_cat_once = 2 /\ NumFragments(d) = 5
        /\ Depth(driver[d].last_task) = 3
        /\ tasks[driver[d].last_task].files = <<FragPath(d, 1), FragPath(d, 5)>>
        /\ \E t \in LevelIds(d, 2) : tasks[tasks[t].child_tasks[2]].kind = "new"

RECURSIVE Power(_, _)
Power(b, h) == IF h = 0 THEN 1 ELSE b * Power(b, h - 1)

\* ceil(log_b(n)): the least h with b^h >= n.
CeilLog(b, n) == CHOOSE h \in 0..n : Power(b, h) >= n /\ \A g \in 0..(h - 1) : Power(b, g) < n

\* The tree of d is built: last_task is its top.
TreeBuilt(d) == driver[d].last_task # 0

\* The number of task levels of d: the leaf level and the reduction levels.
Levels(d) == Depth(driver[d].last_task)

\* C16 as stated: the number of task levels is ceil(log_B(n)).
C16_TreeHeight ==
    \A d \in Files :
        TreeBuilt(d) => Levels(d) = CeilLog(driver[d].num_cat_once, NumFragments(d))

\* C16, amended: the number of task levels is ceil(log_B(n)) for two or more
\* fragments, and 1 for a single fragment, whose one leaf task is a level
\* although ceil(log_B(1)) = 0.
C16_TreeHeightAmended ==
    \A d \in Files :
        TreeBuilt(d) =>
            Levels(d) = IF NumFragments(d) = 1 THEN 1
                        ELSE CeilLog(driver[d].num_cat_once, NumFragments(d))

C16_Witness ==
    \E d \in Files :
        /\ TreeBuilt(d) /\ driver[d].num_cat_once = 2 /\ NumFragments(d) = 5
        /\ Levels(d) = 3

\* The driver of t has taken t for its last task and has joined it.
JoinedByDriver(t) ==
    /\ driver[tasks[t].owner].last_task = t
    /\ driver[tasks[t].owner].pc \in {"rename", "done", "panicked"}

FoldedIds(d, h) == {t \in LevelIds(d, h) : Parents(t) # {}}

\* C18: the tree construction ends with exactly one task.  Whenever the driver
\* is at the top of the reduction loop or behind it, the level it holds is not
\* empty, and if it came out of a fold it has fewer tasks than the level that
\* was folded, all of which went into it; behind the loop exactly one task is
\* left, so neither the pop of the last task nor the assertion after it
\* fails; and every construction step leads on until the last task is taken.
C18_TreeTerminates ==
    /\ [](\A d \in Files :
            /\ driver[d].pc \in {"reduce", "last"} =>
                  /\ Len(driver[d].leaf_tasks) >= 1
                  /\ \A t \in Range(driver[d].leaf_tasks) :
                        tasks[t].kind = "branch" =>
                            /\ LevelIds(d, Depth(t)) = Range(driver[d].leaf_tasks)
                            /\ FoldedIds(d, Depth(t) - 1) = LevelIds(d, Depth(t) - 1)
                            /\ Len(driver[d].leaf_tasks)
                                   < Cardinality(LevelIds(d, Depth(t) - 1))
            /\ driver[d].pc = "last" => Len(driver[d].leaf_tasks) = 1
            /\ driver[d].pc = "panicked" => TreeBuilt(d))
    /\ \A d \in {1} :
            (d \in Files /\ driver[d].pc \in {"start", "leaf", "reduce", "fold", "last"})
                ~> (d \in Files /\ TreeBuilt(d) /\ driver[d].leaf_tasks = <<>>)

C18_Witness ==
    \E d \in Files :
        /\ TreeBuilt(d) /\ driver[d].pc = "join" /\ driver[d].leaf_tasks = <<>>
        /\ Cardinality(LevelIds(d, 1)) = 3
        /\ Cardinality(LevelIds(d, 2)) = 2
        /\ LevelIds(d, 3) = {driver[d].last_task}

\* The tasks that were dispatched to run the retry loop: all but the padding
\* tasks of Task::new.
Dispatched(d) == {t \in TasksOf(d) : tasks[t].kind # "new"}

\* C19: the file list of every dispatched task has exactly B entries, as many
\* as a parent has children; its first entry is a path, not the empty string;
\* after an empty string only empty strings follow; the real entries are
\* fragment paths of the file.  The first task of every level has the first
\* fragment of the sorted list for its leader, and so has the last task, whose
\* leader the rename takes.
C19_FileListShape ==
    \A d \in Files :
        /\ \A t \in Dispatched(d) :
              /\ Len(tasks[t].files) = driver[d].num_cat_once
              /\ tasks[t].kind = "branch" =>
                    Len(tasks[t].child_tasks) = driver[d].num_cat_once
              /\ tasks[t].files[1] # Empty
              /\ \A i, j \in 1..Len(tasks[t].files) :
                    (i < j /\ tasks[t].files[i] = Empty) => tasks[t].files[j] = Empty
              /\ Touched(t) \subseteq Fragments(d)
              /\ PositionIn(LevelIds(d, Depth(t)), t) = 0 =>
                    tasks[t].files[1] = FragPath(d, 1)
        /\ TreeBuilt(d) => long_filename(d) = FragPath(d, 1)

C19_Witness ==
    \E d \in Files :
        /\ TreeBuilt(d) /\ driver[d].num_cat_once = 3 /\ NumFragments(d) = 5
        /\ long_filename(d) = FragPath(d, 1)
        /\ tasks[driver[d].last_task].files = <<FragPath(d, 1), FragPath(d, 4), Empty>>
        /\ \E t \in Dispatched(d) : tasks[t].files = <<FragPath(d, 4), FragPath(d, 5), Empty>>

====
